---- MODULE Spec2Model ----
(***************************************************************************)
(* The day-cycle pipeline of the farm advisory graph (graph.py, nodes/,    *)
(* state.py): run_once loads variable.json, runs the nine nodes in graph   *)
(* order over the in-memory FarmGraphState, and saves the final state.     *)
(*                                                                         *)
(*   variable  the persisted record (variable.json).  A key the code reads *)
(*             with .get(key, default) or ".get(key) or default" and that  *)
(*             is missing from the file is held here as that default, so   *)
(*             the empty record {} of a missing file is EmptyVariable.     *)
(*   state     the LangGraph state: every node returns a dict of updates   *)
(*             that is merged into it (keys not returned keep their value).*)
(*   kb        the knowledge base (persistent.json), read-only.            *)
(*   pc        the node that runs next; "idle" between run_once calls.     *)
(*                                                                         *)
(* Action names are sequences of words; "b in action" (substring) is the   *)
(* contiguous-subsequence test on words and a + " (rescheduled)" appends   *)
(* the word "(rescheduled)".                                               *)
(***************************************************************************)
EXTENDS Integers, Sequences, FiniteSets, TLC

VARIABLES kb, variable, state, pc, runs, inp, executed

vars == <<kb, variable, state, pc, runs, inp, executed>>

\* ---------------------------------------------------------------- bounds
\* run_once invocations in one behaviour
MaxRuns == 2
\* largest currentDayIndex of the variable.json a behaviour starts from
MaxDay == 3
\* largest configured sprayDelayToleranceDays
MaxTol == 2

\* ------------------------------------------------------- program constants
\* rules.get("sprayDelayToleranceDays", 3)
DefaultTolerance == 3
\* reschedule_day = current_day + 2
RescheduleOffset == 2
\* if rain_prob >= 70
RainThreshold == 70

\* ------------------------------------------------------------ sequences
Range(s) == {s[i] : i \in DOMAIN s}

\* the day keys of a calendar
Days(calendar) == {calendar[i].day : i \in DOMAIN calendar}

RECURSIVE SelectSeqBy(_, _)
\* [e for e in s if e in keep]
SelectSeqBy(s, keep) ==
    IF s = <<>> THEN <<>>
    ELSE IF Head(s) \in keep THEN <<Head(s)>> \o SelectSeqBy(Tail(s), keep)
         ELSE SelectSeqBy(Tail(s), keep)

\* "b in a" on word sequences: b is a contiguous part of a
Contains(a, b) ==
    \E i \in 0..(Len(a) - Len(b)) :
        \A j \in 1..Len(b) : a[i + j] = b[j]

\* a + " (rescheduled)"
Rescheduled(a) == Append(a, "(rescheduled)")

\* ------------------------------------------------------------- vocabulary
FungicideSpray == <<"Fungicide", "spray">>
SeedSoaking == <<"Seed", "soaking">>
FieldScouting == <<"Field", "scouting">>
Harvesting == <<"Harvesting">>

NoEvent == [type |-> "", reason |-> ""]
RainEvent == [type |-> "ACTION_BLOCKED", reason |-> "Rain"]
HeatEvent == [type |-> "HEAT_STRESS", reason |-> "Heatwave"]

NoMessage == [kind |-> "none", reason |-> "", actions |-> <<>>]
RainMessage == [kind |-> "rain", reason |-> "", actions |-> <<>>]
ReasonMessage(r) == [kind |-> "reason", reason |-> r, actions |-> <<>>]
ActionsMessage(a) == [kind |-> "actions", reason |-> "", actions |-> a]
ObserveMessage == [kind |-> "observe", reason |-> "", actions |-> <<>>]

EmptyForecast == [kind |-> "empty", rain_probability |-> 0, heatwave |-> FALSE]
PlaceholderForecast == [kind |-> "placeholder", rain_probability |-> 0, heatwave |-> FALSE]
DataForecast(r, h) == [kind |-> "data", rain_probability |-> r, heatwave |-> h]

Entry(d, s, a, deps, wc) ==
    [day |-> d, stage |-> s, actions |-> a, dependencies |-> deps, weatherConstraints |-> wc]

Stage(s, d1, d2, a, deps, wc) ==
    [stage |-> s, dayStart |-> d1, dayEnd |-> d2, actions |-> a,
     dependencies |-> deps, weatherConstraints |-> wc]

\* --------------------------------------------------------- knowledge base
\* stageModels["rice"]: stage blocks covering [1, cycleDuration] without gaps
LifecycleLong ==
    << Stage("Sowing", 1, 2, <<SeedSoaking, FungicideSpray>>, <<>>, <<"no_rain">>),
       Stage("Harvest", 3, 4, <<Harvesting>>, <<"Sowing">>, <<>>) >>

LifecycleDaily ==
    << Stage("Sowing", 1, 1, <<FungicideSpray>>, <<>>, <<>>),
       Stage("Vegetative", 2, 2, <<SeedSoaking, FungicideSpray>>, <<"Sowing">>, <<>>),
       Stage("Harvest", 3, 3, <<Harvesting>>, <<"Vegetative">>, <<>>) >>

Lifecycles == {LifecycleLong, LifecycleDaily}

\* replanningRules.sprayDelayToleranceDays, an integer of the JSON file
Tolerances == (0 - 1)..MaxTol

KnowledgeBases ==
    [lifecycle : Lifecycles,
     hasTolerance : {TRUE},
     sprayDelayToleranceDays : Tolerances,
     rainBlockedActions : {<<>>}]
    \cup
    [lifecycle : Lifecycles,
     hasTolerance : {FALSE},
     sprayDelayToleranceDays : {0},
     rainBlockedActions : {<<FungicideSpray>>, <<Harvesting>>}]

\* models.get(crop, [])
get_crop_lifecycle(crop) == IF crop = "rice" THEN kb.lifecycle ELSE <<>>

\* rules.get("sprayDelayToleranceDays", 3)
max_delay ==
    IF kb.hasTolerance THEN kb.sprayDelayToleranceDays ELSE DefaultTolerance

\* rules.get("rainBlockedActions") or the built-in list
rain_blocked ==
    IF kb.rainBlockedActions # <<>> THEN kb.rainBlockedActions
    ELSE << FungicideSpray,
            <<"First", "nitrogen", "application">>,
            <<"Second", "nitrogen", "if", "needed">> >>

\* the last dayEnd of the lifecycle
CycleDuration(lifecycle) == lifecycle[Len(lifecycle)].dayEnd

\* ------------------------------------------------------------ sorting
RECURSIVE InsertByDay(_, _)
\* e goes after every entry whose day is not larger (the sort is stable)
InsertByDay(s, e) ==
    IF s = <<>> THEN <<e>>
    ELSE IF Head(s).day <= e.day THEN <<Head(s)>> \o InsertByDay(Tail(s), e)
         ELSE <<e>> \o s

RECURSIVE SortByDay(_)
\* list.sort(key=lambda e: e.get("day", 0))
SortByDay(s) ==
    IF s = <<>> THEN <<>>
    ELSE InsertByDay(SortByDay(SubSeq(s, 1, Len(s) - 1)), s[Len(s)])

\* ------------------------------------------------------- state.py
\* load_variable of a missing file: {} (every key at its default); parses
\* tells whether the text of the file is JSON (json.dump writes only such)
EmptyVariable ==
    [parses |-> TRUE,
     crop |-> "", location |-> "", farmer_response |-> "",
     weatherForecast |-> EmptyForecast, weatherRisk |-> "",
     cropCalendar |-> <<>>, currentDayIndex |-> 0, currentCropStage |-> "",
     completedActions |-> <<>>, skippedActions |-> <<>>, delayedActions |-> <<>>,
     riskEvents |-> <<>>, riskEvent |-> NoEvent,
     confidenceScores |-> [spray_skip |-> 0, completion |-> 0],
     last_advisory |-> NoMessage]

\* a variable.json whose text is not JSON
CorruptVariable == [EmptyVariable EXCEPT !.parses = FALSE]

\* load_variable: json.load raises on a file that exists and does not parse
load_raises(file) == ~file.parses

\* FarmGraphState(...) built from the record; the daily keys are not set
state_from_variable(v) ==
    [crop |-> v.crop, location |-> v.location,
     weatherForecast |-> v.weatherForecast,
     cropCalendar |-> v.cropCalendar,
     currentDayIndex |-> v.currentDayIndex,
     currentCropStage |-> v.currentCropStage,
     completedActions |-> v.completedActions,
     skippedActions |-> v.skippedActions,
     delayedActions |-> v.delayedActions,
     riskEvents |-> v.riskEvents,
     confidenceScores |-> v.confidenceScores,
     todayActions |-> <<>>, weatherRisk |-> "", riskEvent |-> NoEvent,
     message |-> NoMessage, farmer_response |-> ""]

\* a save that writes the listed keys without the risk event log
variable_from_state_without_events(st) ==
    [parses |-> TRUE,
     crop |-> st.crop, location |-> st.location, farmer_response |-> "",
     weatherForecast |-> st.weatherForecast, weatherRisk |-> "",
     cropCalendar |-> st.cropCalendar,
     currentDayIndex |-> st.currentDayIndex,
     currentCropStage |-> st.currentCropStage,
     completedActions |-> st.completedActions,
     skippedActions |-> st.skippedActions,
     delayedActions |-> st.delayedActions,
     riskEvents |-> <<>>, riskEvent |-> NoEvent,
     confidenceScores |-> st.confidenceScores,
     last_advisory |-> st.message]

\* the record written from a state: the listed keys only, so riskEvent,
\* weatherRisk and farmer_response are not in it
variable_from_state(st) ==
    [parses |-> TRUE,
     crop |-> st.crop, location |-> st.location, farmer_response |-> "",
     weatherForecast |-> st.weatherForecast, weatherRisk |-> "",
     cropCalendar |-> st.cropCalendar,
     currentDayIndex |-> st.currentDayIndex,
     currentCropStage |-> st.currentCropStage,
     completedActions |-> st.completedActions,
     skippedActions |-> st.skippedActions,
     delayedActions |-> st.delayedActions,
     riskEvents |-> st.riskEvents, riskEvent |-> NoEvent,
     confidenceScores |-> st.confidenceScores,
     last_advisory |-> st.message]

\* ------------------------------------------------------------- inputs
Crops == {"rice", "Rice", "millet"}
Locations == {"Kolhapur"}
FarmerResponses == {"", "completed", "did_not_spray"}

\* str.strip().lower() on the crops of the model
Lower(crop) == IF crop = "Rice" THEN "rice" ELSE crop

Forecasts ==
    {EmptyForecast, DataForecast(69, FALSE), DataForecast(70, FALSE),
     DataForecast(69, TRUE), DataForecast(70, TRUE)}

\* ------------------------------------------------ CalendarPlanner (pure)
RECURSIVE StageEntries(_)
\* one entry per stage block, keyed by dayStart
StageEntries(lifecycle) ==
    IF lifecycle = <<>> THEN <<>>
    ELSE LET b == Head(lifecycle)
         IN  <<Entry(b.dayStart, b.stage, b.actions, b.dependencies, b.weatherConstraints)>>
             \o StageEntries(Tail(lifecycle))

\* the calendar the planner builds from a lifecycle
PlannedCalendar(lifecycle) == SortByDay(StageEntries(lifecycle))

\* the planner returning only the empty calendar for a crop without lifecycle
PlannerUpdateKeepsPointer(st) ==
    LET lifecycle == get_crop_lifecycle(st.crop)
    IN  IF lifecycle = <<>>
        THEN [st EXCEPT !.cropCalendar = <<>>]
        ELSE [st EXCEPT !.cropCalendar = PlannedCalendar(lifecycle),
                        !.currentDayIndex = 0,
                        !.currentCropStage = lifecycle[1].stage]

\* the dict crop_calendar_planner_node returns, merged into the state
PlannerUpdate(st) ==
    LET lifecycle == get_crop_lifecycle(st.crop)
    IN  IF lifecycle = <<>>
        THEN [st EXCEPT !.cropCalendar = <<>>, !.currentDayIndex = 0,
                        !.currentCropStage = ""]
        ELSE [st EXCEPT !.cropCalendar = PlannedCalendar(lifecycle),
                        !.currentDayIndex = 0,
                        !.currentCropStage = lifecycle[1].stage]

\* the planner saving the new calendar and stage but not the reset pointer
PlannerSaveKeepsPointer(v, st) ==
    LET lifecycle == get_crop_lifecycle(st.crop)
    IN  IF lifecycle = <<>> THEN v
        ELSE [v EXCEPT !.cropCalendar = PlannedCalendar(lifecycle),
                       !.currentCropStage = lifecycle[1].stage,
                       !.crop = st.crop,
                       !.location = st.location]

\* the planner saving the reset pointer and stage but not the new calendar
PlannerSaveKeepsCalendar(v, st) ==
    LET lifecycle == get_crop_lifecycle(st.crop)
    IN  IF lifecycle = <<>> THEN v
        ELSE [v EXCEPT !.currentDayIndex = 0,
                       !.currentCropStage = lifecycle[1].stage,
                       !.crop = st.crop,
                       !.location = st.location]

\* the record the planner saves (none for a crop without lifecycle)
PlannerSave(v, st) ==
    LET lifecycle == get_crop_lifecycle(st.crop)
    IN  IF lifecycle = <<>> THEN v
        ELSE [v EXCEPT !.cropCalendar = PlannedCalendar(lifecycle),
                       !.currentDayIndex = 0,
                       !.currentCropStage = lifecycle[1].stage,
                       !.crop = st.crop,
                       !.location = st.location]

\* -------------------------------------------------- DailyExecutor (pure)
\* variable.get("cropCalendar") or state.get("cropCalendar") or []
CalendarOf(v, st) ==
    IF v.cropCalendar # <<>> THEN v.cropCalendar ELSE st.cropCalendar

RECURSIVE ScanCalendar(_, _, _, _)
\* the for loop of daily_executor_node: <<today_actions, current_stage>>
ScanCalendar(calendar, current_day, today_actions, current_stage) ==
    IF calendar = <<>> THEN <<today_actions, current_stage>>
    ELSE LET e == Head(calendar)
         IN  IF e.day = current_day
             THEN ScanCalendar(Tail(calendar), current_day,
                               today_actions \o e.actions, e.stage)
             ELSE IF e.day <= current_day /\ current_stage = ""
             THEN ScanCalendar(Tail(calendar), current_day, today_actions, e.stage)
             ELSE ScanCalendar(Tail(calendar), current_day, today_actions, current_stage)

\* the fallback scanning the calendar forwards: the first started entry
EarliestStage(calendar, current_day, current_stage) ==
    LET started == {i \in DOMAIN calendar : calendar[i].day <= current_day}
    IN  IF started = {} THEN current_stage
        ELSE calendar[CHOOSE i \in started : \A j \in started : i <= j].stage

\* the stage of the last entry with day <= current_day, else the given one
LatestStage(calendar, current_day, current_stage) ==
    LET started == {i \in DOMAIN calendar : calendar[i].day <= current_day}
    IN  IF started = {} THEN current_stage
        ELSE calendar[CHOOSE i \in started : \A j \in started : j <= i].stage

TodayOf(calendar, current_day) ==
    LET scan == ScanCalendar(calendar, current_day, <<>>, "")
    IN  [todayActions |-> scan[1],
         stage |-> IF scan[1] = <<>> /\ calendar # <<>>
                   THEN LatestStage(calendar, current_day, scan[2])
                   ELSE scan[2]]

\* ------------------------------------------------ WeatherObserver (pure)
\* the classification testing the heatwave flag before the rain probability
ClassifyHeatFirst(forecast) ==
    IF forecast.heatwave THEN "HEATWAVE"
    ELSE IF forecast.rain_probability >= RainThreshold THEN "RAIN_EXPECTED"
    ELSE "CLEAR"

\* rain_prob >= 70 / heatwave / else
Classify(forecast) ==
    IF forecast.rain_probability >= RainThreshold THEN "RAIN_EXPECTED"
    ELSE IF forecast.heatwave THEN "HEATWAVE"
    ELSE "CLEAR"

\* --------------------------------------------------- RiskDetector (pure)
\* the detector looking at the first of today's actions only
DetectRiskFirstOnly(today_actions, weather_risk) ==
    IF today_actions = <<>> THEN NoEvent
    ELSE IF weather_risk = "RAIN_EXPECTED"
            /\ \E i \in DOMAIN rain_blocked : Contains(Head(today_actions), rain_blocked[i])
         THEN RainEvent
    ELSE IF weather_risk = "HEATWAVE" THEN HeatEvent
    ELSE NoEvent

RECURSIVE DetectRisk(_, _)
\* the for loop over today_actions, with its two breaks
DetectRisk(today_actions, weather_risk) ==
    IF today_actions = <<>> THEN NoEvent
    ELSE IF weather_risk = "RAIN_EXPECTED"
            /\ \E i \in DOMAIN rain_blocked : Contains(Head(today_actions), rain_blocked[i])
         THEN RainEvent
    ELSE IF weather_risk = "HEATWAVE" THEN HeatEvent
    ELSE DetectRisk(Tail(today_actions), weather_risk)

\* ---------------------------------------------- CalendarReplanner (pure)
RECURSIVE FilterEntries(_, _, _)
\* [e for e in calendar if e.day < current_day] (past = TRUE), or >= (FALSE)
FilterEntries(calendar, current_day, past) ==
    IF calendar = <<>> THEN <<>>
    ELSE IF (Head(calendar).day < current_day) = past
         THEN <<Head(calendar)>> \o FilterEntries(Tail(calendar), current_day, past)
         ELSE FilterEntries(Tail(calendar), current_day, past)

\* the reschedule day without the clamp
RescheduleDayUnclamped(current_day, delay) == current_day + RescheduleOffset

\* current_day + 2, clamped to current_day + max_delay
RescheduleDay(current_day, delay) ==
    IF current_day + RescheduleOffset > current_day + delay
    THEN current_day + delay
    ELSE current_day + RescheduleOffset

RECURSIVE MapRescheduled(_)
MapRescheduled(actions) ==
    IF actions = <<>> THEN <<>>
    ELSE <<Rescheduled(Head(actions))>> \o MapRescheduled(Tail(actions))

\* the comprehension keeping only the first of the actions it moves
RescheduledActionsFirstOnly(actions, today_actions) ==
    LET moved == SelectSeqBy(actions, Range(today_actions))
    IN  IF moved = <<>> THEN <<>> ELSE <<Rescheduled(Head(moved))>>

\* [a + " (rescheduled)" for a in actions if a in today_actions]
RescheduledActions(actions, today_actions) ==
    MapRescheduled(SelectSeqBy(actions, Range(today_actions)))

\* [a for a in actions if a not in today_actions]
OtherActions(actions, today_actions) ==
    SelectSeqBy(actions, Range(actions) \ Range(today_actions))

\* the loop body that appends the moved entry but no entry for today
ReplanEntryDropsToday(entry, current_day, today_actions, failed_reason, reschedule_day) ==
    IF entry.day = current_day /\ failed_reason = "Rain"
    THEN LET moved == RescheduledActions(entry.actions, today_actions)
         IN  IF moved # <<>>
             THEN <<Entry(reschedule_day, entry.stage, moved,
                          entry.dependencies, entry.weatherConstraints)>>
             ELSE <<entry>>
    ELSE <<entry>>

\* the loop body that also falls through to append the original entry
ReplanEntryKeepsOriginal(entry, current_day, today_actions, failed_reason, reschedule_day) ==
    IF entry.day = current_day /\ failed_reason = "Rain"
    THEN LET moved == RescheduledActions(entry.actions, today_actions)
             other == OtherActions(entry.actions, today_actions)
         IN  (IF moved # <<>>
              THEN <<Entry(reschedule_day, entry.stage, moved,
                           entry.dependencies, entry.weatherConstraints)>>
              ELSE <<>>)
             \o
             <<Entry(current_day,
                     IF other = <<>> THEN "Monitoring" ELSE entry.stage,
                     IF other = <<>> THEN <<FieldScouting>> ELSE other,
                     <<>>, <<>>),
               entry>>
    ELSE <<entry>>

\* what the loop body appends to updated_remaining for one entry
ReplanEntry(entry, current_day, today_actions, failed_reason, reschedule_day) ==
    IF entry.day = current_day /\ failed_reason = "Rain"
    THEN LET moved == RescheduledActions(entry.actions, today_actions)
             other == OtherActions(entry.actions, today_actions)
         IN  (IF moved # <<>>
              THEN <<Entry(reschedule_day, entry.stage, moved,
                           entry.dependencies, entry.weatherConstraints)>>
              ELSE <<>>)
             \o
             <<Entry(current_day,
                     IF other = <<>> THEN "Monitoring" ELSE entry.stage,
                     IF other = <<>> THEN <<FieldScouting>> ELSE other,
                     <<>>, <<>>)>>
    ELSE <<entry>>

RECURSIVE UpdateRemaining(_, _, _, _, _)
UpdateRemaining(remaining, current_day, today_actions, failed_reason, reschedule_day) ==
    IF remaining = <<>> THEN <<>>
    ELSE ReplanEntry(Head(remaining), current_day, today_actions, failed_reason,
                     reschedule_day)
         \o UpdateRemaining(Tail(remaining), current_day, today_actions,
                            failed_reason, reschedule_day)

\* full_calendar = sorted(updated_remaining), the past left out
ReplanWithoutPast(calendar, current_day, today_actions, failed_reason, delay) ==
    SortByDay(UpdateRemaining(FilterEntries(calendar, current_day, FALSE),
                              current_day, today_actions, failed_reason,
                              RescheduleDay(current_day, delay)))

\* full_calendar = past + sorted(updated_remaining)
Replan(calendar, current_day, today_actions, failed_reason, delay) ==
    FilterEntries(calendar, current_day, TRUE)
    \o SortByDay(UpdateRemaining(FilterEntries(calendar, current_day, FALSE),
                                 current_day, today_actions, failed_reason,
                                 RescheduleDay(current_day, delay)))

\* ------------------------------------------------ AdvisoryComposer (pure)
\* the composer without the observe-the-field fallback
AdvisoryWithoutFallback(today_actions, risk_event) ==
    IF risk_event # NoEvent /\ risk_event.type = "ACTION_BLOCKED"
    THEN IF risk_event.reason = "Rain" THEN RainMessage
         ELSE ReasonMessage(risk_event.reason)
    ELSE IF today_actions # <<>> THEN ActionsMessage(today_actions)
    ELSE NoMessage

\* the message advisory_delivery_node builds
Advisory(today_actions, risk_event) ==
    IF risk_event # NoEvent /\ risk_event.type = "ACTION_BLOCKED"
    THEN IF risk_event.reason = "Rain" THEN RainMessage
         ELSE ReasonMessage(risk_event.reason)
    ELSE IF today_actions # <<>> THEN ActionsMessage(today_actions)
    ELSE ObserveMessage

\* ------------------------------------------------ FeedbackRecorder (pure)
RECURSIVE LogOf(_, _, _)
\* the log entries of today's actions; reason "" stands for no reason key
LogOf(today_actions, current_day, reason) ==
    IF today_actions = <<>> THEN <<>>
    ELSE <<[action |-> Head(today_actions), day |-> current_day, reason |-> reason]>>
         \o LogOf(Tail(today_actions), current_day, reason)

\* the pointer taken from the state instead of the record
FeedbackDayFromState(v, st) == st.currentDayIndex

\* variable.get("currentDayIndex", state.get("currentDayIndex", 0)): the key
\* is in the record from the context builder's save on
FeedbackDay(v, st) == v.currentDayIndex

\* current_day + 1
NextDay(current_day) == current_day + 1

\* the classification testing "completed" before the blocked event
OutcomeCompletedFirst(farmer_response, risk_event) ==
    IF farmer_response = "completed" THEN "completed"
    ELSE IF farmer_response = "did_not_spray"
            \/ (risk_event # NoEvent /\ risk_event.type = "ACTION_BLOCKED")
    THEN "skipped"
    ELSE "delayed"

\* skipped / completed / delayed
Outcome(farmer_response, risk_event) ==
    IF farmer_response = "did_not_spray"
       \/ (risk_event # NoEvent /\ risk_event.type = "ACTION_BLOCKED")
    THEN "skipped"
    ELSE IF farmer_response = "completed" THEN "completed"
    ELSE "delayed"

\* ------------------------------------------------------------ Init
\* variable.json before the first run_once: missing, or left by an earlier
\* cycle of rice at some day, with the forecast a collaborator wrote into it
InitialVariables ==
    {EmptyVariable} \cup
    {[EmptyVariable EXCEPT !.crop = "rice", !.location = "Kolhapur",
                           !.weatherForecast = f,
                           !.cropCalendar = PlannedCalendar(l),
                           !.currentDayIndex = d,
                           !.currentCropStage = TodayOf(PlannedCalendar(l), d).stage]
        : f \in Forecasts, l \in Lifecycles, d \in 0..MaxDay}

Init ==
    /\ kb \in KnowledgeBases
    /\ variable \in InitialVariables
    /\ variable.cropCalendar \in {<<>>, PlannedCalendar(kb.lifecycle)}
    /\ state = state_from_variable(EmptyVariable)
    /\ pc = "idle"
    /\ runs = 0
    /\ inp = [crop |-> "", location |-> "", farmer_response |-> ""]
    /\ executed = <<>>

\* ------------------------------------------------------------ actions
\* run_once up to the start of the graph: load, set the inputs, save, build
\* the initial state
RunOnce(crop, location, farmer_response) ==
    /\ pc = "idle"
    /\ runs < MaxRuns
    /\ ~load_raises(variable)
    /\ variable' = [variable EXCEPT
                      !.crop = crop, !.location = location,
                      !.farmer_response =
                          IF farmer_response # "" THEN farmer_response ELSE @]
    /\ state' = state_from_variable(variable')
    /\ inp' = [crop |-> crop, location |-> location,
               farmer_response |-> farmer_response]
    /\ runs' = runs + 1
    /\ pc' = "crop_intent"
    /\ UNCHANGED <<kb, executed>>

\* crop_intent_node: the normalised crop (or the given one when that is empty)
CropIntent ==
    /\ pc = "crop_intent"
    /\ state' = [state EXCEPT !.crop = IF Lower(@) # "" THEN Lower(@) ELSE @]
    /\ pc' = "context_builder"
    /\ UNCHANGED <<kb, variable, runs, inp, executed>>

\* the forecast context_builder_node settles on
ContextForecast(v, st) ==
    LET found == IF v.weatherForecast.kind # "empty" THEN v.weatherForecast
                 ELSE st.weatherForecast
    IN  IF found.kind = "empty" /\ st.location # "" THEN PlaceholderForecast
        ELSE found

\* context_builder_node: the record is rewritten from the state
ContextBuilder ==
    /\ pc = "context_builder"
    /\ state' = [state EXCEPT !.weatherForecast = ContextForecast(variable, state)]
    /\ variable' = variable_from_state(state')
    /\ pc' = "crop_calendar_planner"
    /\ UNCHANGED <<kb, runs, inp, executed>>

\* crop_calendar_planner_node
CalendarPlanner ==
    /\ pc = "crop_calendar_planner"
    /\ state' = PlannerUpdate(state)
    /\ variable' = PlannerSave(variable, state)
    /\ pc' = "daily_executor"
    /\ UNCHANGED <<kb, runs, inp, executed>>

\* daily_executor_node: reads the record, writes nothing to it
DailyExecutor ==
    /\ pc = "daily_executor"
    /\ LET today == TodayOf(CalendarOf(variable, state), variable.currentDayIndex)
       IN  /\ state' = [state EXCEPT
                          !.todayActions = today.todayActions,
                          !.currentCropStage =
                              IF today.stage # "" THEN today.stage ELSE @]
           /\ executed' = Append(executed,
                                 [crop |-> inp.crop, day |-> variable.currentDayIndex])
    /\ pc' = "weather_observer"
    /\ UNCHANGED <<kb, variable, runs, inp>>

\* weather_observer_node
WeatherObserver ==
    /\ pc = "weather_observer"
    /\ LET forecast == IF variable.weatherForecast.kind # "empty"
                       THEN variable.weatherForecast ELSE state.weatherForecast
       IN  /\ variable' = [variable EXCEPT !.weatherRisk = Classify(forecast)]
           /\ state' = [state EXCEPT !.weatherRisk = Classify(forecast)]
    /\ pc' = "risk_detection"
    /\ UNCHANGED <<kb, runs, inp, executed>>

\* route_after_risk
route_after_risk(st) ==
    IF st.riskEvent # NoEvent THEN "calendar_replanner" ELSE "advisory_delivery"

\* risk_detection_node
RiskDetection ==
    /\ pc = "risk_detection"
    /\ LET risk_event ==
               DetectRisk(state.todayActions,
                          IF state.weatherRisk # "" THEN state.weatherRisk ELSE "CLEAR")
           risk_events_list ==
               IF risk_event # NoEvent THEN Append(variable.riskEvents, risk_event)
               ELSE variable.riskEvents
       IN  /\ variable' = [variable EXCEPT !.riskEvent = risk_event,
                                           !.riskEvents = risk_events_list]
           /\ state' = [state EXCEPT !.riskEvent = risk_event,
                                     !.riskEvents = risk_events_list]
    /\ pc' = route_after_risk(state')
    /\ UNCHANGED <<kb, runs, inp, executed>>

\* calendar_replanner_node
CalendarReplanner ==
    /\ pc = "calendar_replanner"
    /\ LET risk_event == IF state.riskEvent # NoEvent THEN state.riskEvent
                         ELSE variable.riskEvent
           full_calendar ==
               Replan(CalendarOf(variable, state), variable.currentDayIndex,
                      state.todayActions, risk_event.reason, max_delay)
       IN  IF risk_event = NoEvent
           THEN UNCHANGED <<variable, state>>
           ELSE /\ variable' = [variable EXCEPT !.cropCalendar = full_calendar]
                /\ state' = [state EXCEPT !.cropCalendar = full_calendar]
    /\ pc' = "advisory_delivery"
    /\ UNCHANGED <<kb, runs, inp, executed>>

\* advisory_delivery_node
AdvisoryDelivery ==
    /\ pc = "advisory_delivery"
    /\ LET message == Advisory(state.todayActions, state.riskEvent)
       IN  /\ variable' = [variable EXCEPT !.last_advisory = message]
           /\ state' = [state EXCEPT !.message = message]
    /\ pc' = "feedback"
    /\ UNCHANGED <<kb, runs, inp, executed>>

\* max((e.get("day", 0) for e in calendar), default=0)
MaxDayOf(calendar) ==
    IF calendar = <<>> THEN 0
    ELSE CHOOSE d \in Days(calendar) : \A x \in Days(calendar) : x <= d

\* the router sending a day-cycle with days left back to the executor
route_after_feedback_loops(v, st) ==
    IF v.currentDayIndex >= MaxDayOf(CalendarOf(v, st)) THEN "end" ELSE "daily_executor"

\* route_after_feedback: "end" on both paths
route_after_feedback(v, st) ==
    IF v.currentDayIndex >= MaxDayOf(CalendarOf(v, st)) THEN "end" ELSE "end"

\* feedback_node, then route_after_feedback on the record it has saved
Feedback ==
    /\ pc = "feedback"
    /\ LET farmer_response ==
               IF state.farmer_response # "" THEN state.farmer_response
               ELSE variable.farmer_response
           current_day == FeedbackDay(variable, state)
           risk_event == IF state.riskEvent # NoEvent THEN state.riskEvent
                         ELSE variable.riskEvent
           outcome == Outcome(farmer_response, risk_event)
           completed ==
               IF outcome = "completed"
               THEN variable.completedActions \o LogOf(state.todayActions, current_day, "")
               ELSE variable.completedActions
           skipped ==
               IF outcome = "skipped"
               THEN variable.skippedActions \o LogOf(state.todayActions, current_day, "blocked")
               ELSE variable.skippedActions
           delayed ==
               IF outcome = "delayed"
               THEN variable.delayedActions \o LogOf(state.todayActions, current_day, "")
               ELSE variable.delayedActions
           confidence ==
               [spray_skip |-> variable.confidenceScores.spray_skip
                               + (IF outcome = "skipped" THEN 1 ELSE 0),
                completion |-> variable.confidenceScores.completion
                               + (IF outcome = "completed" THEN 1 ELSE 0)]
       IN  /\ variable' = [variable EXCEPT
                             !.currentDayIndex = NextDay(current_day),
                             !.completedActions = completed,
                             !.skippedActions = skipped,
                             !.delayedActions = delayed,
                             !.confidenceScores = confidence,
                             !.riskEvent = NoEvent]
           /\ state' = [state EXCEPT
                          !.currentDayIndex = NextDay(current_day),
                          !.completedActions = completed,
                          !.skippedActions = skipped,
                          !.delayedActions = delayed,
                          !.confidenceScores = confidence]
    /\ pc' = IF route_after_feedback(variable', state') = "end" THEN "final_save"
             ELSE "daily_executor"
    /\ UNCHANGED <<kb, runs, inp, executed>>

\* the end of run_once: the final state is written over the record
FinalSave ==
    /\ pc = "final_save"
    /\ variable' = variable_from_state(state)
    /\ pc' = "idle"
    /\ UNCHANGED <<kb, state, runs, inp, executed>>

Next ==
    \/ \E crop \in Crops, location \in Locations, farmer_response \in FarmerResponses :
           RunOnce(crop, location, farmer_response)
    \/ CropIntent
    \/ ContextBuilder
    \/ CalendarPlanner
    \/ DailyExecutor
    \/ WeatherObserver
    \/ RiskDetection
    \/ CalendarReplanner
    \/ AdvisoryDelivery
    \/ Feedback
    \/ FinalSave

Spec == Init /\ [][Next]_vars

\* ------------------------------------------- feedback_node called directly
\* the risk events a caller can hand to a node
RiskEventsGiven == {NoEvent, RainEvent, HeatEvent}

\* today's action lists a caller can hand to a node
TodayActionsGiven == {<<>>, <<FungicideSpray>>, <<SeedSoaking, FungicideSpray>>}

\* the logs and counters of a record: fresh, or left by earlier days
LogsGiven ==
    {[completedActions |-> <<>>, skippedActions |-> <<>>, delayedActions |-> <<>>,
      confidenceScores |-> [spray_skip |-> 0, completion |-> 0]],
     [completedActions |-> <<[action |-> Harvesting, day |-> 0, reason |-> ""]>>,
      skippedActions |-> <<[action |-> FungicideSpray, day |-> 0, reason |-> "blocked"]>>,
      delayedActions |-> <<[action |-> SeedSoaking, day |-> 0, reason |-> ""]>>,
      confidenceScores |-> [spray_skip |-> 1, completion |-> 1]]}

\* variable.json as a caller of the node has written it
VariablesGiven ==
    {[EmptyVariable EXCEPT !.crop = "rice", !.location = "Kolhapur",
                           !.currentDayIndex = d,
                           !.farmer_response = r,
                           !.riskEvent = e,
                           !.completedActions = l.completedActions,
                           !.skippedActions = l.skippedActions,
                           !.delayedActions = l.delayedActions,
                           !.confidenceScores = l.confidenceScores]
        : d \in 0..MaxDay, r \in FarmerResponses, e \in RiskEventsGiven, l \in LogsGiven}

\* feedback_node(state) with the record and the state a caller has prepared
InitFeedback ==
    /\ kb \in KnowledgeBases
    /\ variable \in VariablesGiven
    /\ \E a \in TodayActionsGiven, e \in RiskEventsGiven, r \in FarmerResponses :
           state = [state_from_variable(variable) EXCEPT
                      !.todayActions = a, !.riskEvent = e, !.farmer_response = r]
    /\ pc = "feedback"
    /\ runs = 0
    /\ inp = [crop |-> "", location |-> "", farmer_response |-> ""]
    /\ executed = <<>>

SpecFeedback == InitFeedback /\ [][Feedback]_vars

\* ------------------------------ run_once on a malformed store or arguments
\* the crops and locations a caller can pass, the empty string included
CropsGiven == {"", "rice", "millet"}
LocationsGiven == {"", "Kolhapur"}

\* run_once when load_variable raises: the exception leaves run_once before
\* anything is saved; the caller may call again
RunOnceRaises(crop, location, farmer_response) ==
    /\ pc \in {"idle", "raised"}
    /\ runs < MaxRuns
    /\ load_raises(variable)
    /\ inp' = [crop |-> crop, location |-> location,
               farmer_response |-> farmer_response]
    /\ runs' = runs + 1
    /\ pc' = "raised"
    /\ UNCHANGED <<kb, variable, state, executed>>

\* variable.json missing, not JSON, or left by a cycle of rice at day 1 under
\* a rain forecast
InitEntry ==
    /\ kb \in KnowledgeBases
    /\ variable \in
           {EmptyVariable, CorruptVariable,
            [EmptyVariable EXCEPT
               !.crop = "rice", !.location = "Kolhapur",
               !.weatherForecast = DataForecast(RainThreshold, FALSE),
               !.cropCalendar = PlannedCalendar(kb.lifecycle),
               !.currentDayIndex = 1,
               !.currentCropStage = TodayOf(PlannedCalendar(kb.lifecycle), 1).stage]}
    /\ state = state_from_variable(EmptyVariable)
    /\ pc = "idle"
    /\ runs = 0
    /\ inp = [crop |-> "", location |-> "", farmer_response |-> ""]
    /\ executed = <<>>

NextEntry ==
    \/ \E crop \in CropsGiven, location \in LocationsGiven : RunOnce(crop, location, "")
    \/ \E crop \in CropsGiven, location \in LocationsGiven :
           RunOnceRaises(crop, location, "")
    \/ CropIntent
    \/ ContextBuilder
    \/ CalendarPlanner
    \/ DailyExecutor
    \/ WeatherObserver
    \/ RiskDetection
    \/ CalendarReplanner
    \/ AdvisoryDelivery
    \/ Feedback
    \/ FinalSave

SpecEntry == InitEntry /\ [][NextEntry]_vars

\* ------------------------------------- two run_once calls on one store
\* the two callers of run_once
Callers == {1, 2}

\* the other caller
Other(r) == 3 - r

\* the crops the two callers ask for
CropsRaced == {"rice", "millet"}

\* the start of run_once as a function of the record it loads: the record it
\* saves and the initial state it builds
StartRun(v, crop, location, farmer_response) ==
    LET saved == [v EXCEPT !.crop = crop, !.location = location,
                           !.farmer_response =
                               IF farmer_response # "" THEN farmer_response ELSE @]
    IN  [variable |-> saved, state |-> state_from_variable(saved)]

\* the full-record save ending run_once that leaves the store as it finds it
FinalRecordKeepsStore(v, st) == v

\* save_variable(variable_from_state(final_state)) at the end of run_once
FinalRecord(v, st) == variable_from_state(st)

\* one node (or the final save) as a function of the record it loads and the
\* state it is given: the record it saves, the state after the merge of the
\* dict it returns, and the node the graph runs next
NodeStep(node, v, st) ==
    CASE node = "crop_intent" ->
           [variable |-> v,
            state |-> [st EXCEPT !.crop = IF Lower(@) # "" THEN Lower(@) ELSE @],
            pc |-> "context_builder"]
      [] node = "context_builder" ->
           LET new_state == [st EXCEPT !.weatherForecast = ContextForecast(v, st)]
           IN  [variable |-> variable_from_state(new_state),
                state |-> new_state,
                pc |-> "crop_calendar_planner"]
      [] node = "crop_calendar_planner" ->
           [variable |-> PlannerSave(v, st),
            state |-> PlannerUpdate(st),
            pc |-> "daily_executor"]
      [] node = "daily_executor" ->
           LET today == TodayOf(CalendarOf(v, st), v.currentDayIndex)
           IN  [variable |-> v,
                state |-> [st EXCEPT
                             !.todayActions = today.todayActions,
                             !.currentCropStage =
                                 IF today.stage # "" THEN today.stage ELSE @],
                pc |-> "weather_observer"]
      [] node = "weather_observer" ->
           LET forecast == IF v.weatherForecast.kind # "empty"
                           THEN v.weatherForecast ELSE st.weatherForecast
           IN  [variable |-> [v EXCEPT !.weatherRisk = Classify(forecast)],
                state |-> [st EXCEPT !.weatherRisk = Classify(forecast)],
                pc |-> "risk_detection"]
      [] node = "risk_detection" ->
           LET risk_event ==
                   DetectRisk(st.todayActions,
                              IF st.weatherRisk # "" THEN st.weatherRisk ELSE "CLEAR")
               risk_events_list ==
                   IF risk_event # NoEvent THEN Append(v.riskEvents, risk_event)
                   ELSE v.riskEvents
               new_state == [st EXCEPT !.riskEvent = risk_event,
                                       !.riskEvents = risk_events_list]
           IN  [variable |-> [v EXCEPT !.riskEvent = risk_event,
                                       !.riskEvents = risk_events_list],
                state |-> new_state,
                pc |-> route_after_risk(new_state)]
      [] node = "calendar_replanner" ->
           LET risk_event == IF st.riskEvent # NoEvent THEN st.riskEvent
                             ELSE v.riskEvent
               full_calendar ==
                   Replan(CalendarOf(v, st), v.currentDayIndex,
                          st.todayActions, risk_event.reason, max_delay)
           IN  IF risk_event = NoEvent
               THEN [variable |-> v, state |-> st, pc |-> "advisory_delivery"]
               ELSE [variable |-> [v EXCEPT !.cropCalendar = full_calendar],
                     state |-> [st EXCEPT !.cropCalendar = full_calendar],
                     pc |-> "advisory_delivery"]
      [] node = "advisory_delivery" ->
           LET message == Advisory(st.todayActions, st.riskEvent)
           IN  [variable |-> [v EXCEPT !.last_advisory = message],
                state |-> [st EXCEPT !.message = message],
                pc |-> "feedback"]
      [] node = "feedback" ->
           LET farmer_response ==
                   IF st.farmer_response # "" THEN st.farmer_response
                   ELSE v.farmer_response
               current_day == FeedbackDay(v, st)
               risk_event == IF st.riskEvent # NoEvent THEN st.riskEvent
                             ELSE v.riskEvent
               outcome == Outcome(farmer_response, risk_event)
               completed ==
                   IF outcome = "completed"
                   THEN v.completedActions \o LogOf(st.todayActions, current_day, "")
                   ELSE v.completedActions
               skipped ==
                   IF outcome = "skipped"
                   THEN v.skippedActions \o LogOf(st.todayActions, current_day, "blocked")
                   ELSE v.skippedActions
               delayed ==
                   IF outcome = "delayed"
                   THEN v.delayedActions \o LogOf(st.todayActions, current_day, "")
                   ELSE v.delayedActions
               confidence ==
                   [spray_skip |-> v.confidenceScores.spray_skip
                                   + (IF outcome = "skipped" THEN 1 ELSE 0),
                    completion |-> v.confidenceScores.completion
                                   + (IF outcome = "completed" THEN 1 ELSE 0)]
               saved == [v EXCEPT !.currentDayIndex = NextDay(current_day),
                                  !.completedActions = completed,
                                  !.skippedActions = skipped,
                                  !.delayedActions = delayed,
                                  !.confidenceScores = confidence,
                                  !.riskEvent = NoEvent]
               new_state == [st EXCEPT !.currentDayIndex = NextDay(current_day),
                                       !.completedActions = completed,
                                       !.skippedActions = skipped,
                                       !.delayedActions = delayed,
                                       !.confidenceScores = confidence]
           IN  [variable |-> saved,
                state |-> new_state,
                pc |-> IF route_after_feedback(saved, new_state) = "end"
                       THEN "final_save" ELSE "daily_executor"]
      [] node = "final_save" ->
           [variable |-> FinalRecord(v, st), state |-> st, pc |-> "returned"]

RECURSIVE RunNodes(_, _, _)
\* the graph run to its end from a node on, with no other writer of the store:
\* the record left when run_once returns
RunNodes(node, v, st) ==
    IF node = "returned" THEN v
    ELSE LET step == NodeStep(node, v, st)
         IN  RunNodes(step.pc, step.variable, step.state)

\* the record a whole run_once call leaves, given the record it finds
RunOutcome(v, crop, location, farmer_response) ==
    LET start == StartRun(v, crop, location, farmer_response)
    IN  RunNodes("crop_intent", start.variable, start.state)

\* the record two run_once calls leave when the second starts after the first
\* has returned
SerialOutcome(v, first, second) ==
    RunOutcome(RunOutcome(v, first.crop, first.location, first.farmer_response),
               second.crop, second.location, second.farmer_response)

\* the store the two callers share: a rice calendar, day 1 reached, rain ahead
StoredRecord ==
    [EmptyVariable EXCEPT !.crop = "rice", !.location = "Kolhapur",
                          !.weatherForecast = DataForecast(RainThreshold, FALSE),
                          !.cropCalendar = PlannedCalendar(kb.lifecycle),
                          !.currentDayIndex = 1,
                          !.currentCropStage =
                              TodayOf(PlannedCalendar(kb.lifecycle), 1).stage]

\* caller r calls run_once: load, set the inputs, save, build its own state;
\* `after` keeps the callers that had returned by then
RaceRunOnce(r, crop) ==
    /\ pc[r] = "idle"
    /\ LET start == StartRun(variable, crop, "Kolhapur", "")
       IN  /\ variable' = start.variable
           /\ state' = [state EXCEPT ![r] = start.state]
    /\ inp' = [inp EXCEPT ![r] = [crop |-> crop, location |-> "Kolhapur",
                                  farmer_response |-> "",
                                  after |-> {c \in Callers : pc[c] = "returned"}]]
    /\ pc' = [pc EXCEPT ![r] = "crop_intent"]
    /\ runs' = runs + 1
    /\ UNCHANGED <<kb, executed>>

\* caller r's graph runs the node it is at: one load-modify-save on the store
RaceNode(r, node) ==
    /\ pc[r] = node
    /\ LET step == NodeStep(node, variable, state[r])
       IN  /\ variable' = step.variable
           /\ state' = [state EXCEPT ![r] = step.state]
           /\ pc' = [pc EXCEPT ![r] = step.pc]
    /\ executed' = IF node = "daily_executor"
                   THEN Append(executed, [crop |-> inp[r].crop,
                                          day |-> variable.currentDayIndex])
                   ELSE executed
    /\ UNCHANGED <<kb, runs, inp>>

RaceCropIntent(r) == RaceNode(r, "crop_intent")
RaceContextBuilder(r) == RaceNode(r, "context_builder")
RaceCalendarPlanner(r) == RaceNode(r, "crop_calendar_planner")
RaceDailyExecutor(r) == RaceNode(r, "daily_executor")
RaceWeatherObserver(r) == RaceNode(r, "weather_observer")
RaceRiskDetection(r) == RaceNode(r, "risk_detection")
RaceCalendarReplanner(r) == RaceNode(r, "calendar_replanner")
RaceAdvisoryDelivery(r) == RaceNode(r, "advisory_delivery")
RaceFeedback(r) == RaceNode(r, "feedback")
RaceFinalSave(r) == RaceNode(r, "final_save")

InitRace ==
    /\ kb \in KnowledgeBases
    /\ variable = StoredRecord
    /\ state = [r \in Callers |-> state_from_variable(EmptyVariable)]
    /\ pc = [r \in Callers |-> "idle"]
    /\ runs = 0
    /\ inp = [r \in Callers |-> [crop |-> "", location |-> "", farmer_response |-> "",
                                 after |-> {}]]
    /\ executed = <<>>

NextRace ==
    \E r \in Callers :
        \/ \E crop \in CropsRaced : RaceRunOnce(r, crop)
        \/ RaceCropIntent(r)
        \/ RaceContextBuilder(r)
        \/ RaceCalendarPlanner(r)
        \/ RaceDailyExecutor(r)
        \/ RaceWeatherObserver(r)
        \/ RaceRiskDetection(r)
        \/ RaceCalendarReplanner(r)
        \/ RaceAdvisoryDelivery(r)
        \/ RaceFeedback(r)
        \/ RaceFinalSave(r)

SpecRace == InitRace /\ [][NextRace]_vars

\* ------------------------------------------------- vocabulary of claims
\* the crop of the running day-cycle has a lifecycle in the knowledge base
HasLifecycle == get_crop_lifecycle(state.crop) # <<>>

\* how many entries of the calendar have day d
Count(calendar, d) == Cardinality({i \in DOMAIN calendar : calendar[i].day = d})

StartDays(lifecycle) == {lifecycle[i].dayStart : i \in DOMAIN lifecycle}

\* the planner has just run for a crop with a lifecycle
AfterPlanner == pc = "daily_executor" /\ HasLifecycle

\* the replanner has just run (it is entered only with a risk event, and the
\* advisory node is entered without one otherwise)
AfterReplanner == pc = "advisory_delivery" /\ state.riskEvent # NoEvent

\* the replanner has just moved today's actions for a Rain event
AfterRainReplan ==
    /\ AfterReplanner
    /\ state.riskEvent = RainEvent
    /\ state.todayActions # <<>>

\* the days at which a step inserted calendar entries
InsertedDays(before, after) ==
    {d \in Days(after) : Count(after, d) > Count(before, d)}

\* the entries before the current day, in calendar order
Past(calendar, current_day) == FilterEntries(calendar, current_day, TRUE)

\* ------------------------------------------------------------------ C1
\* C1 (as claimed): after CalendarPlanner builds the calendar of a crop with
\* a lifecycle, and after every CalendarReplanner run, the day values of the
\* persisted cropCalendar cover every integer of [1, cycleDuration].
C1_CoversEveryDay ==
    (AfterPlanner \/ AfterReplanner) =>
        \A d \in 1..CycleDuration(kb.lifecycle) : d \in Days(variable.cropCalendar)

\* C1 (amended): after CalendarPlanner builds the calendar of a crop with a
\* lifecycle, and after every CalendarReplanner run on it, the day values of
\* cropCalendar cover the dayStart of every stage of the lifecycle (one entry
\* per stage, not one per integer of [1, cycleDuration]).
C1_CoversStageStarts ==
    (AfterPlanner \/ AfterReplanner) =>
        /\ StartDays(kb.lifecycle) \subseteq Days(variable.cropCalendar)
        /\ StartDays(kb.lifecycle) \subseteq Days(state.cropCalendar)

\* a Rain replan has moved actions of a planned calendar and the calendar
\* still has an entry at every stage start
C1_Witness ==
    /\ AfterRainReplan
    /\ Len(variable.cropCalendar) > Len(kb.lifecycle)
    /\ StartDays(kb.lifecycle) \subseteq Days(variable.cropCalendar)

\* ------------------------------------------------------------------ C2
UniqueDays(calendar) == \A d \in Days(calendar) : Count(calendar, d) = 1

InCycle(calendar) == Days(calendar) \subseteq 1..CycleDuration(kb.lifecycle)

\* C2 (as claimed): immediately after planning and after any replan, no two
\* entries of cropCalendar have the same day and every day lies in
\* [1, cycleDuration].  Stated for the tolerances of at least 1, under which
\* the reschedule day is a later day.
C2_UniqueDaysInCycle ==
    (max_delay >= 1 /\ (AfterPlanner \/ AfterReplanner)) =>
        UniqueDays(variable.cropCalendar) /\ InCycle(variable.cropCalendar)

\* C2 (amended): immediately after planning, no two entries of cropCalendar
\* have the same day and every day lies in [1, cycleDuration]; a replan
\* inserts entries only at the reschedule day and removes none, so after a
\* replan only the reschedule day can be duplicated or lie outside the cycle.
C2_OnlyRescheduleDayAdded ==
    [][ /\ (pc = "crop_calendar_planner" /\ HasLifecycle) =>
              UniqueDays(variable'.cropCalendar) /\ InCycle(variable'.cropCalendar)
        /\ pc = "calendar_replanner" =>
              /\ \A d \in Days(variable.cropCalendar) :
                     Count(variable'.cropCalendar, d) >= Count(variable.cropCalendar, d)
              /\ InsertedDays(variable.cropCalendar, variable'.cropCalendar)
                     \subseteq {RescheduleDay(variable.currentDayIndex, max_delay)}
      ]_vars

\* a Rain replan has put the moved actions on a day that already had an entry
C2_Witness ==
    /\ AfterRainReplan
    /\ \E d \in Days(variable.cropCalendar) : Count(variable.cropCalendar, d) > 1

\* ------------------------------------------------------------------ C3
\* C3 (as claimed): for every tolerance, a replan leaves the entries with
\* day < currentDayIndex as they were, in the same order.
C3_PastUntouched ==
    [][ pc = "calendar_replanner" =>
            Past(variable'.cropCalendar, variable.currentDayIndex)
                = Past(variable.cropCalendar, variable.currentDayIndex)
      ]_vars

\* C3 (amended): for every calendar, current day, RiskEvent and non-negative
\* sprayDelayToleranceDays, a replan leaves the entries with
\* day < currentDayIndex as they were, in the same order.
C3_PastUntouchedNonNegative ==
    [][ (pc = "calendar_replanner" /\ max_delay >= 0) =>
            Past(variable'.cropCalendar, variable.currentDayIndex)
                = Past(variable.cropCalendar, variable.currentDayIndex)
      ]_vars

\* a Rain replan under a non-negative tolerance on a calendar with a past
C3_Witness ==
    /\ AfterRainReplan
    /\ max_delay >= 0
    /\ Past(variable.cropCalendar, variable.currentDayIndex) # <<>>
    /\ Len(variable.cropCalendar) > Len(kb.lifecycle)

\* ------------------------------------------------------------------ C4
\* C4: every FeedbackRecorder invocation sets the persisted and the returned
\* currentDayIndex to the persisted value before the call plus 1.
C4_FeedbackAdvancesByOne ==
    [][ pc = "feedback" =>
            /\ variable'.currentDayIndex = variable.currentDayIndex + 1
            /\ state'.currentDayIndex = variable.currentDayIndex + 1
      ]_vars

\* Feedback has run on a day with actions and a risk event, from a record
\* whose pointer differed from the one in the state
C4_Witness ==
    /\ pc = "final_save"
    /\ state.todayActions # <<>>
    /\ state.riskEvent # NoEvent
    /\ variable.currentDayIndex >= 2
    /\ state.currentDayIndex = variable.currentDayIndex

\* ------------------------------------------------------------------ C5
\* C5: over any sequence of stage executions, repeated run_once invocations
\* included, the persisted currentDayIndex is never decremented.
C5_NeverDecremented ==
    [][ variable'.currentDayIndex >= variable.currentDayIndex ]_vars

\* ------------------------------------------------------------------ C6
\* C6: when run_once is driven repeatedly for the same crop, the Execute stage
\* of each invocation reads a currentDayIndex one greater than the previous
\* invocation's (executed holds what each DailyExecutor run read).
C6_OneDayPerInvocation ==
    \A i \in 1..(Len(executed) - 1) :
        executed[i].crop = executed[i + 1].crop =>
            executed[i + 1].day = executed[i].day + 1

\* ------------------------------------------------------------------ C7
\* RiskDetector has just run
AfterDetector == pc = "calendar_replanner" \/ (pc = "advisory_delivery" /\ state.riskEvent = NoEvent)

\* Feedback has run and the day-cycle has not returned yet, or has returned
AfterFeedback == pc = "final_save" \/ (pc = "idle" /\ runs > 0)

\* C7: after RiskDetector the transient riskEvent is absent or the one event
\* detected for today, and after Feedback it is absent in the persisted record
\* and in the state the day-cycle returns.
C7_RiskEventCleared ==
    /\ AfterDetector =>
          /\ state.riskEvent \in {NoEvent, RainEvent, HeatEvent}
          /\ state.riskEvent = DetectRisk(state.todayActions, state.weatherRisk)
          /\ variable.riskEvent = state.riskEvent
    /\ AfterFeedback =>
          /\ variable.riskEvent = NoEvent
          /\ state.riskEvent = NoEvent

\* ------------------------------------------------------------------ C8
\* C8 (as claimed): for every current day and every configured tolerance, the
\* day at which a replan inserts the moved actions lies in
\* (currentDayIndex, currentDayIndex + sprayDelayToleranceDays].  Stated for
\* the non-negative tolerances: it fails already for the tolerance 0.
C8_RescheduleWithinTolerance ==
    [][ (pc = "calendar_replanner" /\ max_delay >= 0) =>
            \A d \in InsertedDays(variable.cropCalendar, variable'.cropCalendar) :
                /\ variable.currentDayIndex < d
                /\ d <= variable.currentDayIndex + max_delay
      ]_vars

\* C8 (amended): for every current day and every configured tolerance of at
\* least 1, the day at which a replan inserts the moved actions lies in
\* (currentDayIndex, currentDayIndex + sprayDelayToleranceDays].
C8_RescheduleWithinPositiveTolerance ==
    [][ (pc = "calendar_replanner" /\ max_delay >= 1) =>
            \A d \in InsertedDays(variable.cropCalendar, variable'.cropCalendar) :
                /\ variable.currentDayIndex < d
                /\ d <= variable.currentDayIndex + max_delay
      ]_vars

\* a Rain replan under a tolerance of 1 has clamped the reschedule day to the
\* day after the current one
C8_Witness ==
    /\ AfterRainReplan
    /\ max_delay = 1
    /\ \E i \in DOMAIN variable.cropCalendar :
           /\ variable.cropCalendar[i].day = variable.currentDayIndex + 1
           /\ \E k \in DOMAIN variable.cropCalendar[i].actions :
                  variable.cropCalendar[i].actions[k] = Rescheduled(FungicideSpray)

\* ------------------------------------------------------------------ C9
\* C9: CalendarPlanner on a crop without lifecycle returns cropCalendar = [],
\* currentDayIndex = 0 and currentCropStage = "" from every prior state, and
\* a second call on the result returns the same.
C9_EmptyPlanIdempotent ==
    /\ (pc = "daily_executor" /\ ~HasLifecycle) =>
          /\ state.cropCalendar = <<>>
          /\ state.currentDayIndex = 0
          /\ state.currentCropStage = ""
    /\ ~HasLifecycle =>
          /\ PlannerUpdate(state).cropCalendar = <<>>
          /\ PlannerUpdate(state).currentDayIndex = 0
          /\ PlannerUpdate(state).currentCropStage = ""
          /\ PlannerUpdate(PlannerUpdate(state)) = PlannerUpdate(state)
          /\ PlannerSave(PlannerSave(variable, state), PlannerUpdate(state))
                 = PlannerSave(variable, state)

\* the planner has run for a crop without lifecycle over a record that held a
\* calendar and an advanced pointer
C9_Witness ==
    /\ pc = "daily_executor"
    /\ ~HasLifecycle
    /\ variable.cropCalendar # <<>>
    /\ variable.currentDayIndex > 0
    /\ state.cropCalendar = <<>>

\* ----------------------------------------------------------------- C10
\* C10: in a day-cycle of a crop without lifecycle the prior calendar is
\* discarded and the stages after the planner see an empty calendar: no
\* actions today, no risk event, and the observe-field advisory.
C10_EmptyCalendarDownstream ==
    ~HasLifecycle =>
        /\ pc \in {"daily_executor", "weather_observer", "risk_detection",
                   "calendar_replanner", "advisory_delivery", "feedback"} =>
              CalendarOf(variable, state) = <<>>
        /\ pc \in {"weather_observer", "risk_detection", "calendar_replanner",
                   "advisory_delivery", "feedback", "final_save"} =>
              state.todayActions = <<>>
        /\ pc \in {"calendar_replanner", "advisory_delivery", "feedback", "final_save"} =>
              state.riskEvent = NoEvent
        /\ pc \in {"feedback", "final_save"} =>
              state.message = ObserveMessage

\* ----------------------------------------------------------------- C11
\* the calendar is ordered by day ascending
SortedByDay(calendar) ==
    \A i \in 1..(Len(calendar) - 1) : calendar[i].day <= calendar[i + 1].day

\* exactly one entry of the calendar is keyed by the block's dayStart, and it
\* carries the block's stage and actions
OneEntryFor(calendar, block) ==
    /\ Count(calendar, block.dayStart) = 1
    /\ \E i \in DOMAIN calendar :
           calendar[i] = Entry(block.dayStart, block.stage, block.actions,
                               block.dependencies, block.weatherConstraints)

\* C11: for a crop with a lifecycle of n stage blocks, CalendarPlanner produces
\* exactly n calendar entries, one per stage keyed by that stage's dayStart,
\* ordered by day ascending, sets currentDayIndex to 0 and currentCropStage to
\* the first stage's name, and writes the new calendar and the reset pointer
\* to the persisted record in the same step, replacing any prior calendar.
C11_PlannerWritesStageEntries ==
    [][ (pc = "crop_calendar_planner" /\ HasLifecycle) =>
            LET lifecycle == get_crop_lifecycle(state.crop)
            IN  /\ Len(state'.cropCalendar) = Len(lifecycle)
                /\ \A i \in DOMAIN lifecycle :
                       OneEntryFor(state'.cropCalendar, lifecycle[i])
                /\ SortedByDay(state'.cropCalendar)
                /\ state'.currentDayIndex = 0
                /\ state'.currentCropStage = lifecycle[1].stage
                /\ variable'.cropCalendar = state'.cropCalendar
                /\ variable'.currentDayIndex = 0
                /\ variable'.currentCropStage = lifecycle[1].stage
      ]_vars

\* the planner has run for rice in a second day-cycle, after a day-cycle whose
\* Rain replan had changed the persisted calendar, and the record holds the
\* freshly planned calendar again
C11_Witness ==
    /\ AfterPlanner
    /\ runs = 2
    /\ \E i \in DOMAIN variable.riskEvents : variable.riskEvents[i] = RainEvent
    /\ variable.cropCalendar = PlannedCalendar(kb.lifecycle)
    /\ variable.currentDayIndex = 0

\* ----------------------------------------------------------------- C12
\* the action name contains a rain-blocked action name
IsRainBlocked(a) == \E i \in DOMAIN rain_blocked : Contains(a, rain_blocked[i])

\* the actions of the calendar entries keyed by day d
ActionsAt(calendar, d) ==
    UNION {Range(calendar[i].actions) : i \in {j \in DOMAIN calendar : calendar[j].day = d}}

\* the stages of the calendar entries keyed by day d
StagesAt(calendar, d) ==
    {calendar[i].stage : i \in {j \in DOMAIN calendar : calendar[j].day = d}}

\* C12: when CalendarReplanner handles a Rain event, the rain-blocked actions
\* of the entry at currentDayIndex are removed from it and re-inserted with
\* the suffix " (rescheduled)" at the reschedule day, the actions of that
\* entry that were not blocked remain at currentDayIndex, and the day is
\* relabelled "Monitoring" with "Field scouting" only if none remain.  Stated
\* for the tolerances of at least 1, under which the reschedule day is a
\* later day.
C12_NonBlockedRemain ==
    [][ (pc = "calendar_replanner" /\ state.riskEvent = RainEvent /\ max_delay >= 1) =>
            LET current_day == variable.currentDayIndex
                before == ActionsAt(variable.cropCalendar, current_day)
                after == ActionsAt(variable'.cropCalendar, current_day)
                moved == ActionsAt(variable'.cropCalendar,
                                   RescheduleDay(current_day, max_delay))
            IN  /\ \A a \in before :
                       IsRainBlocked(a) => (a \notin after /\ Rescheduled(a) \in moved)
                /\ \A a \in before : ~IsRainBlocked(a) => a \in after
                /\ "Monitoring" \in StagesAt(variable'.cropCalendar, current_day) =>
                       \A a \in before : IsRainBlocked(a)
      ]_vars

\* ----------------------------------------------------------------- C13
\* C13: RiskDetector returns the event {ACTION_BLOCKED, "Rain"} if and only if
\* weatherRisk is RAIN_EXPECTED and at least one of today's actions contains a
\* rain-blocked action name (of the knowledge base, or of the built-in list
\* when the knowledge base gives none); under CLEAR weather it returns no
\* event.
C13_RainEventIffBlocked ==
    [][ pc = "risk_detection" =>
            /\ state'.riskEvent = RainEvent <=>
                   /\ state.weatherRisk = "RAIN_EXPECTED"
                   /\ \E i \in DOMAIN state.todayActions :
                          IsRainBlocked(state.todayActions[i])
            /\ state.weatherRisk = "CLEAR" => state'.riskEvent = NoEvent
            /\ variable'.riskEvent = state'.riskEvent
      ]_vars

\* the detector has returned the Rain event for a day whose first action is
\* not rain-blocked and whose second one is
C13_Witness ==
    /\ pc = "calendar_replanner"
    /\ state.riskEvent = RainEvent
    /\ state.weatherRisk = "RAIN_EXPECTED"
    /\ Len(state.todayActions) = 2
    /\ ~IsRainBlocked(state.todayActions[1])
    /\ IsRainBlocked(state.todayActions[2])

\* ----------------------------------------------------------------- C14
\* C14: whenever weatherRisk is HEATWAVE, RiskDetector produces the event
\* {HEAT_STRESS, "Heatwave"}, whatever today's action list is; it produces no
\* event only when weatherRisk is neither HEATWAVE nor a rain block.
C14_HeatwaveAlwaysDetected ==
    [][ pc = "risk_detection" =>
            /\ state.weatherRisk = "HEATWAVE" => state'.riskEvent = HeatEvent
            /\ state'.riskEvent = NoEvent =>
                   /\ state.weatherRisk # "HEATWAVE"
                   /\ ~(/\ state.weatherRisk = "RAIN_EXPECTED"
                        /\ \E i \in DOMAIN state.todayActions :
                               IsRainBlocked(state.todayActions[i]))
      ]_vars

\* ----------------------------------------------------------------- C15
\* the outcome signal and the risk event FeedbackRecorder works with
OutcomeSignal ==
    IF state.farmer_response # "" THEN state.farmer_response
    ELSE variable.farmer_response

EventSeen == IF state.riskEvent # NoEvent THEN state.riskEvent ELSE variable.riskEvent

\* every action of the list tagged with the day (and the reason, "" for none)
Tagged(actions, d, reason) ==
    [i \in 1..Len(actions) |-> [action |-> actions[i], day |-> d, reason |-> reason]]

\* C15: FeedbackRecorder appends every one of today's actions, tagged with the
\* pre-increment day, to exactly one log: the skipped log (reason "blocked",
\* spray_skip counter one step higher) if the outcome is did_not_spray or an
\* ACTION_BLOCKED RiskEvent is present; otherwise the completed log
\* (completion counter one step higher) if the outcome is completed;
\* otherwise the delayed log with no counter change.  The other two logs and
\* the other counter are unchanged.
C15_OneLogPerDay ==
    [][ pc = "feedback" =>
            LET d == variable.currentDayIndex
                today == state.todayActions
                skip == OutcomeSignal = "did_not_spray" \/ EventSeen.type = "ACTION_BLOCKED"
                done == ~skip /\ OutcomeSignal = "completed"
                scores == variable.confidenceScores
            IN  /\ variable'.skippedActions =
                       variable.skippedActions
                       \o (IF skip THEN Tagged(today, d, "blocked") ELSE <<>>)
                /\ variable'.completedActions =
                       variable.completedActions
                       \o (IF done THEN Tagged(today, d, "") ELSE <<>>)
                /\ variable'.delayedActions =
                       variable.delayedActions
                       \o (IF ~skip /\ ~done THEN Tagged(today, d, "") ELSE <<>>)
                /\ variable'.confidenceScores.spray_skip =
                       scores.spray_skip + (IF skip THEN 1 ELSE 0)
                /\ variable'.confidenceScores.completion =
                       scores.completion + (IF done THEN 1 ELSE 0)
                /\ state'.skippedActions = variable'.skippedActions
                /\ state'.completedActions = variable'.completedActions
                /\ state'.delayedActions = variable'.delayedActions
                /\ state'.confidenceScores = variable'.confidenceScores
      ]_vars

\* FeedbackRecorder has put two actions of day 2 into the completed log, after
\* the earlier entry, for the outcome "completed" under a heat-stress event
C15_Witness ==
    /\ pc = "final_save"
    /\ state.farmer_response = "completed"
    /\ state.riskEvent = HeatEvent
    /\ state.todayActions = <<SeedSoaking, FungicideSpray>>
    /\ variable.currentDayIndex = 3
    /\ Len(variable.completedActions) = 3
    /\ variable.completedActions[3] = [action |-> FungicideSpray, day |-> 2, reason |-> ""]
    /\ Len(variable.skippedActions) = 1
    /\ Len(variable.delayedActions) = 1
    /\ variable.confidenceScores = [spray_skip |-> 1, completion |-> 2]

\* ----------------------------------------------------------------- C16
\* C16: the farmerResponse passed to run_once is the outcome signal the
\* Feedback stage of that invocation classifies by: with did_not_spray the
\* spray_skip counter ends one step higher, and with completed (and no blocked
\* action) the completion counter ends one step higher and today's actions
\* are in the completed log (inp holds the arguments of the running
\* invocation; only Feedback writes the counters and the logs).
C16_FarmerResponseClassified ==
    [][ pc = "feedback" =>
            /\ inp.farmer_response = "did_not_spray" =>
                   variable'.confidenceScores.spray_skip
                       = variable.confidenceScores.spray_skip + 1
            /\ (inp.farmer_response = "completed" /\ EventSeen.type # "ACTION_BLOCKED") =>
                   /\ variable'.confidenceScores.completion
                          = variable.confidenceScores.completion + 1
                   /\ variable'.completedActions =
                          variable.completedActions
                          \o Tagged(state.todayActions, variable.currentDayIndex, "")
      ]_vars

\* ----------------------------------------------------------------- C17
\* the edges of one day-cycle: from a node to the node that runs next
Edges ==
    {<<"idle", "crop_intent">>,
     <<"crop_intent", "context_builder">>,
     <<"context_builder", "crop_calendar_planner">>,
     <<"crop_calendar_planner", "daily_executor">>,
     <<"daily_executor", "weather_observer">>,
     <<"weather_observer", "risk_detection">>,
     <<"risk_detection", "calendar_replanner">>,
     <<"risk_detection", "advisory_delivery">>,
     <<"calendar_replanner", "advisory_delivery">>,
     <<"advisory_delivery", "feedback">>,
     <<"feedback", "final_save">>,
     <<"final_save", "idle">>}

\* C17: every day-cycle invocation visits the stages in the order Intent,
\* Context, Plan, Execute, Observe, Detect, [Replan], Advise, Feedback, each
\* at most once (every step follows an edge of that order, none leads back);
\* Replan is visited if and only if a RiskEvent is present after Detect; and
\* the invocation ends after its one Feedback, never looping back to Execute,
\* whatever the day pointer and the calendar are (executed holds one element
\* per Execute, runs counts the invocations).
C17_StageOrder ==
    /\ [][ /\ <<pc, pc'>> \in Edges
           /\ pc = "risk_detection" =>
                  (pc' = "calendar_replanner" <=> state'.riskEvent # NoEvent)
           /\ pc = "feedback" => pc' = "final_save"
         ]_vars
    /\ [](Len(executed) <= runs)

\* a day-cycle that went through Replan has ended after its one Feedback
\* although the calendar has days after the pointer
C17_Witness ==
    /\ pc = "idle"
    /\ runs > 0
    /\ state.riskEvent = RainEvent
    /\ Len(executed) = runs
    /\ variable.currentDayIndex < MaxDayOf(variable.cropCalendar)

\* ----------------------------------------------------------------- C18
\* the message is one of the four texts the composer writes, none of them
\* the empty string
NonEmptyMessage(m) ==
    \/ m = RainMessage
    \/ m.kind = "reason" /\ m.reason # ""
    \/ m.kind = "actions" /\ m.actions # <<>>
    \/ m = ObserveMessage

\* C18: every day-cycle invocation, for every combination of today's actions
\* and RiskEvent and for known and unknown crops alike, ends with a non-empty
\* advisory message, present in the returned state and persisted as
\* last_advisory in the stored record.
C18_AdvisoryAlwaysPresent ==
    (pc = "idle" /\ runs > 0) =>
        /\ NonEmptyMessage(state.message)
        /\ variable.last_advisory = state.message

\* a day-cycle of an unknown crop on an empty record has ended with the
\* observe-the-field message in the returned state and in the record
C18_Witness ==
    /\ pc = "idle"
    /\ runs = 1
    /\ ~HasLifecycle
    /\ state.todayActions = <<>>
    /\ state.message = ObserveMessage
    /\ variable.last_advisory = ObserveMessage

\* ----------------------------------------------------------------- C19
\* C19: when a RiskEvent is present whose reason is not "Rain" (the
\* HEAT_STRESS event with reason "Heatwave"), AdvisoryComposer emits the
\* generic do-not-perform-the-planned-action message naming that reason, not
\* the list of today's actions.
C19_GenericMessageForOtherReason ==
    [][ (/\ pc = "advisory_delivery"
         /\ state.riskEvent # NoEvent
         /\ state.riskEvent.reason # "Rain") =>
            /\ state'.message = ReasonMessage(state.riskEvent.reason)
            /\ variable'.last_advisory = ReasonMessage(state.riskEvent.reason)
      ]_vars

\* ----------------------------------------------------------------- C20
\* C20: DailyExecutor returns the actions and the stage of the calendar entry
\* whose day equals currentDayIndex; when no entry has that day it returns an
\* empty action list and the stage of the entry with the largest
\* day <= currentDayIndex; in both cases it leaves the persisted record
\* unchanged (calendar and pointer as the node reads them).
C20_ExecutorReadsToday ==
    [][ pc = "daily_executor" =>
            LET calendar == CalendarOf(variable, state)
                current_day == variable.currentDayIndex
                at == {i \in DOMAIN calendar : calendar[i].day = current_day}
                started == {i \in DOMAIN calendar : calendar[i].day <= current_day}
            IN  /\ Cardinality(at) = 1 =>
                       \A i \in at :
                           /\ state'.todayActions = calendar[i].actions
                           /\ state'.currentCropStage = calendar[i].stage
                /\ at = {} => state'.todayActions = <<>>
                /\ (at = {} /\ started # {}) =>
                       \E i \in started :
                           /\ \A j \in started : calendar[j].day <= calendar[i].day
                           /\ state'.currentCropStage = calendar[i].stage
                /\ variable' = variable
      ]_vars

\* the executor has run on a day after the last entry of a calendar with
\* three stages: no actions, and the stage of the last entry
C20_Witness ==
    /\ pc = "weather_observer"
    /\ Len(variable.cropCalendar) >= 3
    /\ variable.currentDayIndex > MaxDayOf(variable.cropCalendar)
    /\ state.todayActions = <<>>
    /\ state.currentCropStage = variable.cropCalendar[Len(variable.cropCalendar)].stage
    /\ state.currentCropStage # variable.cropCalendar[1].stage

\* ----------------------------------------------------------------- C21
\* the forecast weather_observer_node reads: the record's, else the state's
ForecastRead ==
    IF variable.weatherForecast.kind # "empty" THEN variable.weatherForecast
    ELSE state.weatherForecast

\* C21: WeatherObserver yields exactly one category per invocation:
\* RAIN_EXPECTED when the rain probability is >= 70 (even if the heatwave flag
\* is set), otherwise HEATWAVE when the heatwave flag is true, otherwise
\* CLEAR; a missing forecast (none, or one without weather data) yields CLEAR.
C21_OneCategory ==
    [][ pc = "weather_observer" =>
            /\ state'.weatherRisk \in {"RAIN_EXPECTED", "HEATWAVE", "CLEAR"}
            /\ state'.weatherRisk = "RAIN_EXPECTED" <=> ForecastRead.rain_probability >= 70
            /\ state'.weatherRisk = "HEATWAVE" <=>
                   (ForecastRead.rain_probability < 70 /\ ForecastRead.heatwave)
            /\ ForecastRead.kind # "data" => state'.weatherRisk = "CLEAR"
            /\ variable'.weatherRisk = state'.weatherRisk
      ]_vars

\* the observer has classified a forecast with rain probability 70 and the
\* heatwave flag set as RAIN_EXPECTED
C21_Witness ==
    /\ pc = "risk_detection"
    /\ variable.weatherForecast = DataForecast(70, TRUE)
    /\ state.weatherRisk = "RAIN_EXPECTED"
    /\ variable.weatherRisk = "RAIN_EXPECTED"

\* ----------------------------------------------------------------- C22
\* a run_once call is made in this step
Invoked == runs' = runs + 1

\* C22: loading the persisted FarmState never fails: a missing file and a
\* file that does not parse are both treated as no prior state, so run_once
\* starts a fresh cycle (the empty record with the arguments set) instead of
\* propagating the parse failure.  Stated for the invocations that supply a
\* crop and a location.
C22_LoadNeverFails ==
    [][ (Invoked /\ inp'.crop # "" /\ inp'.location # "") =>
            /\ pc' = "crop_intent"
            /\ (variable = EmptyVariable \/ load_raises(variable)) =>
                   variable' = [EmptyVariable EXCEPT !.crop = inp'.crop,
                                                     !.location = inp'.location]
      ]_vars

\* ----------------------------------------------------------------- C23
\* C23: invoking the day-cycle with no crop or no location (empty values)
\* propagates a hard failure to the caller instead of running a day-cycle;
\* every other invocation on a store that loads starts its day-cycle.
C23_EmptyArgumentsFail ==
    [][ Invoked =>
            /\ (inp'.crop = "" \/ inp'.location = "") => pc' = "raised"
            /\ (inp'.crop # "" /\ inp'.location # "" /\ ~load_raises(variable)) =>
                   pc' = "crop_intent"
      ]_vars

\* ----------------------------------------------------------------- C24
\* s is an initial segment of t
IsPrefix(s, t) == Len(s) <= Len(t) /\ SubSeq(t, 1, Len(s)) = s

\* C24: the completedActions, skippedActions, delayedActions and riskEvents
\* logs of the persisted record are append-only: across every step of every
\* day-cycle (the node saves and the saves of run_once itself) the previous
\* content of each log is a prefix of its new content, and risk_detection
\* extends riskEvents by exactly the event it emits, and by nothing when it
\* emits none.
C24_LogsAppendOnly ==
    [][ /\ IsPrefix(variable.completedActions, variable'.completedActions)
        /\ IsPrefix(variable.skippedActions, variable'.skippedActions)
        /\ IsPrefix(variable.delayedActions, variable'.delayedActions)
        /\ IsPrefix(variable.riskEvents, variable'.riskEvents)
        /\ pc = "risk_detection" =>
               variable'.riskEvents =
                   IF state'.riskEvent # NoEvent
                   THEN Append(variable.riskEvents, state'.riskEvent)
                   ELSE variable.riskEvents
      ]_vars

\* a second day-cycle has ended on a record whose risk event log and skipped
\* log were both extended in each of the two day-cycles
C24_Witness ==
    /\ pc = "idle"
    /\ runs = 2
    /\ Len(variable.riskEvents) = 2
    /\ Len(variable.skippedActions) >= 2

\* ----------------------------------------------------------------- C25
\* the persisted cropCalendar is the same before and after the step
CalendarKept == variable'.cropCalendar = variable.cropCalendar

\* the persisted currentDayIndex is the same before and after the step
PointerKept == variable'.currentDayIndex = variable.currentDayIndex

\* C25: only the planner and the replanner change the persisted
\* cropCalendar and only feedback changes the persisted currentDayIndex: the
\* steps of crop_intent, context_builder, daily_executor, weather_observer,
\* risk_detection and advisory_delivery and the saves of run_once at its
\* start and its end leave both fields of the record as they were.
C25_FrameOfCalendarAndPointer ==
    [][ /\ pc \notin {"crop_calendar_planner", "calendar_replanner"} => CalendarKept
        /\ pc # "feedback" => PointerKept
      ]_vars

\* the part of C25 about the saves of run_once itself: they change neither field
C25_OrchestratorSavesKeep ==
    [][ (pc \in {"idle", "final_save"}) => (CalendarKept /\ PointerKept) ]_vars

\* the part of C25 about the six nodes named as read-only for both fields
C25_ReadOnlyNodesKeep ==
    [][ (pc \in {"crop_intent", "context_builder", "daily_executor",
                 "weather_observer", "risk_detection", "advisory_delivery"})
            => (CalendarKept /\ PointerKept) ]_vars

\* ----------------------------------------------------------------- C26
\* the stages of the entries governing day d: those of the entries keyed by
\* d, else those of the entries with the largest day below d
GoverningStages(calendar, d) ==
    IF d \in Days(calendar) THEN StagesAt(calendar, d)
    ELSE LET started == {x \in Days(calendar) : x <= d}
         IN  IF started = {} THEN {}
             ELSE StagesAt(calendar, CHOOSE x \in started : \A y \in started : y <= x)

\* the record's cached stage is the stage of an entry governing its pointer
StageConsistent(v) ==
    (\E x \in Days(v.cropCalendar) : x <= v.currentDayIndex) =>
        v.currentCropStage \in GoverningStages(v.cropCalendar, v.currentDayIndex)

\* C26: whenever the persisted calendar has an entry with day <=
\* currentDayIndex, the persisted currentCropStage equals the stage of the
\* entry that governs currentDayIndex (the entry keyed by the pointer, else
\* the one with the largest day below it); stated for the record after the
\* replanner has run and after feedback has advanced the pointer, up to the
\* next invocation.
C26_StageFollowsPointer ==
    (AfterReplanner \/ AfterFeedback) => StageConsistent(variable)

\* the part of C26 about the replanner: after it has relabelled the current
\* day, the record's stage is that of an entry at the pointer
C26_StageAfterReplanner ==
    AfterReplanner => StageConsistent(variable)

\* the part of C26 about feedback: after it has advanced the pointer, the
\* record's stage is that of the entry governing the new pointer
C26_StageAfterFeedback ==
    AfterFeedback => StageConsistent(variable)

\* ----------------------------------------------------------------- C27
\* a stage from the planner onward has ended and the day-cycle is not over
FromPlanOnward ==
    pc \in {"daily_executor", "weather_observer", "risk_detection",
            "calendar_replanner", "advisory_delivery", "feedback", "final_save"}

\* the record and the in-memory state agree on calendar and pointer
RecordAgrees ==
    /\ variable.cropCalendar = state.cropCalendar
    /\ variable.currentDayIndex = state.currentDayIndex

\* C27: at the end of every stage from the planner onward the persisted
\* record and the in-memory state agree on cropCalendar and currentDayIndex,
\* so the full-record save at the end of run_once changes neither field.
C27_RecordMatchesState ==
    /\ FromPlanOnward => RecordAgrees
    /\ pc = "idle" /\ runs > 0 => RecordAgrees

\* the part of C27 for the day-cycles of a crop with a lifecycle
C27_RecordMatchesStateKnownCrop ==
    (FromPlanOnward /\ HasLifecycle) => RecordAgrees

\* ----------------------------------------------------------------- C29
\* the day-cycle in progress was invoked for a crop with a lifecycle
KnownCropRun == pc # "idle" /\ get_crop_lifecycle(Lower(inp.crop)) # <<>>

\* the last invocation was for a crop with a lifecycle and has returned
KnownCropRunEnded ==
    pc = "idle" /\ runs > 0 /\ get_crop_lifecycle(Lower(inp.crop)) # <<>>

\* C29: for a crop with a lifecycle (stage start days all >= 1), every
\* run_once, from any prior record, forecast and farmer response, executes
\* day 0: the executor returns empty todayActions, risk_detection raises no
\* event (also under RAIN_EXPECTED and HEATWAVE), the replanner is never
\* entered, the advisory is the observe-field message, the three action logs
\* are unchanged by every step of the invocation, and the invocation ends
\* with currentDayIndex = 1.
C29_KnownCropRunsDayZero ==
    /\ [](KnownCropRun =>
            /\ pc # "calendar_replanner"
            /\ pc \in {"weather_observer", "risk_detection", "advisory_delivery",
                        "feedback", "final_save"} =>
                   /\ state.todayActions = <<>>
                   /\ executed[Len(executed)].day = 0
            /\ pc \in {"advisory_delivery", "feedback", "final_save"} =>
                   state.riskEvent = NoEvent
            /\ pc \in {"feedback", "final_save"} =>
                   /\ state.message = ObserveMessage
                   /\ variable.last_advisory = ObserveMessage)
    /\ [](KnownCropRunEnded => variable.currentDayIndex = 1)
    /\ [][ (KnownCropRun \/ (Invoked /\ get_crop_lifecycle(Lower(inp'.crop)) # <<>>)) =>
               /\ variable'.completedActions = variable.completedActions
               /\ variable'.skippedActions = variable.skippedActions
               /\ variable'.delayedActions = variable.delayedActions
         ]_vars

\* a second invocation, for rice, has returned on a record that held a
\* heatwave forecast, a pointer past day 0 and logged actions of an earlier
\* day-cycle: it executed day 0 and left the pointer at 1
C29_Witness ==
    /\ KnownCropRunEnded
    /\ runs = 2
    /\ executed[1].day > 0
    /\ executed[2].day = 0
    /\ variable.weatherForecast.kind = "data"
    /\ variable.weatherForecast.heatwave
    /\ variable.delayedActions # <<>>
    /\ variable.currentDayIndex = 1

\* ----------------------------------------------------------------- C30
\* how many times action a occurs in the entries of the calendar keyed by day d
Occurrences(calendar, d, a) ==
    Cardinality(UNION {{<<i, j>> : j \in {k \in DOMAIN calendar[i].actions :
                                                 calendar[i].actions[k] = a}} :
                       i \in {k \in DOMAIN calendar : calendar[k].day = d}})

\* every action name of the calendar
ActionNames(calendar) == UNION {Range(calendar[i].actions) : i \in DOMAIN calendar}

\* the name an action had before " (rescheduled)" was added to it
Unrescheduled(a) == SubSeq(a, 1, Len(a) - 1)

\* a was made by adding " (rescheduled)" to a name
IsRescheduled(a) == Len(a) > 1 /\ a[Len(a)] = "(rescheduled)"

\* the occurrences of action a at day x that a replan of calendar `before`
\* at current day d must leave: those it had, unless moved; those moved to
\* day r under the suffixed name; and "Field scouting" once per relabelled
\* entry of the current day
OccurrencesDue(before, d, r, rain, today_actions, x, a) ==
      (IF rain /\ x = d /\ a \in Range(today_actions) THEN 0
       ELSE Occurrences(before, x, a))
    + (IF rain /\ x = r /\ IsRescheduled(a) /\ Unrescheduled(a) \in Range(today_actions)
       THEN Occurrences(before, d, Unrescheduled(a)) ELSE 0)
    + (IF rain /\ x = d /\ a = FieldScouting THEN Count(before, d) ELSE 0)

\* C30: the replanner never loses an action: for a non-negative tolerance,
\* each action occurrence of the calendar before the replan is present after
\* it, under the same name in an entry of the same day or, for an action of
\* the current day moved by a Rain event, under its name followed by
\* " (rescheduled)" at the reschedule day (the current day plus the smaller of
\* 2 and the tolerance); the only action added is "Field scouting" at the
\* current day.
C30_NoActionLost ==
    [][ (pc = "calendar_replanner" /\ max_delay >= 0) =>
            LET before == CalendarOf(variable, state)
                after == variable'.cropCalendar
                d == variable.currentDayIndex
                r == d + (IF max_delay < 2 THEN max_delay ELSE 2)
                rain == EventSeen.reason = "Rain"
            IN  /\ state'.cropCalendar = after
                /\ \A x \in Days(before) \cup Days(after) \cup {d, r} :
                   \A a \in ActionNames(before) \cup ActionNames(after) \cup {FieldScouting} :
                       Occurrences(after, x, a) =
                           OccurrencesDue(before, d, r, rain, state.todayActions, x, a)
      ]_vars

\* a Rain replan under a non-negative tolerance has moved both actions of the
\* current day, left "Field scouting" there and kept an earlier day's entry
C30_Witness ==
    /\ AfterRainReplan
    /\ max_delay >= 0
    /\ Past(variable.cropCalendar, variable.currentDayIndex) # <<>>
    /\ \E i \in DOMAIN variable.cropCalendar :
           /\ variable.cropCalendar[i].day > variable.currentDayIndex
           /\ variable.cropCalendar[i].actions =
                  <<Rescheduled(SeedSoaking), Rescheduled(FungicideSpray)>>
    /\ \E j \in DOMAIN variable.cropCalendar :
           /\ variable.cropCalendar[j].day = variable.currentDayIndex
           /\ variable.cropCalendar[j].actions = <<FieldScouting>>

\* a heatwave replan has left a calendar with actions as it was
C30_WitnessHeat ==
    /\ AfterReplanner
    /\ state.riskEvent = HeatEvent
    /\ max_delay >= 0
    /\ ActionNames(variable.cropCalendar) # {}

\* ----------------------------------------------------------------- C28
\* every step of a single run_once is the step NodeStep computes
NodeStepAgrees ==
    [][ pc # "idle" =>
            LET step == NodeStep(pc, variable, state)
            IN  /\ variable' = step.variable
                /\ state' = step.state
                /\ pc' = IF step.pc = "returned" THEN "idle" ELSE step.pc
      ]_vars

\* both callers have returned
BothReturned == \A r \in Callers : pc[r] = "returned"

\* caller r called run_once after the other caller had returned
RanAfterOther(r) == Other(r) \in inp[r].after

\* the two records the serial orders of the two calls leave on the store
SerialOutcomes ==
    {SerialOutcome(StoredRecord, inp[r], inp[Other(r)]) : r \in Callers}

\* C28: two run_once calls on one store race.  Run one after the other they
\* leave the serial outcome of their order; interleaved node by node (each
\* node's load-modify-save atomic) each node builds on whatever record the
\* other call saved last, and the store ends as the full-record save of one
\* caller's final state, which overwrites the other caller's updates: the
\* record left need not be the outcome of either serial order (C28_Witness).
C28_RunsRace ==
    BothReturned =>
        /\ \E r \in Callers : variable = variable_from_state(state[r])
        /\ \A r \in Callers :
               RanAfterOther(r) =>
                   variable = SerialOutcome(StoredRecord, inp[Other(r)], inp[r])

\* both calls have returned from an interleaving whose persisted record is the
\* outcome of neither serial order: the day pointer is beyond both
C28_Witness ==
    /\ BothReturned
    /\ variable \notin SerialOutcomes
    /\ \A v \in SerialOutcomes : variable.currentDayIndex > v.currentDayIndex

\* an interleaving has left a calendar that neither serial order leaves
C28_WitnessCalendar ==
    /\ BothReturned
    /\ \A v \in SerialOutcomes : variable.cropCalendar # v.cropCalendar

\* an interleaving has left action logs that neither serial order leaves
C28_WitnessLogs ==
    /\ BothReturned
    /\ \A v \in SerialOutcomes :
           <<variable.skippedActions, variable.delayedActions, variable.riskEvents>>
               # <<v.skippedActions, v.delayedActions, v.riskEvents>>

====
